---- MODULE Spec2Model ----
(***************************************************************************)
(* A model of the raytracer: tagged vector algebra (vector.rs), sphere     *)
(* intersection and the scene scan (sphere.rs), the material scattering    *)
(* functions (material.rs), the path integrator (utils.rs) and the         *)
(* row-parallel renderer (main.rs).                                         *)
(*                                                                         *)
(* f64 values are modelled as exact rationals <<n, d>> (d > 0, lowest      *)
(* terms) together with the three non-finite values a division by zero     *)
(* produces (<<1, 0>>, <<-1, 0>>, <<0, 0>>).  Arithmetic other than        *)
(* division, comparison and fuzzy_equal is applied to finite values only.  *)
(***************************************************************************)
EXTENDS Integers, Sequences, FiniteSets, TLC

VARIABLES
    va, vb, vop, vres,         \* vector.rs: the operands, the operator applied, its result
    rpc,                       \* main.rs render: "for_each" while the rows run, then "returned"
    width, height, samples_per_pixel,   \* render's arguments
    bands,                     \* render: the (i, band) pairs, each band a slice of pixels
    task,                      \* rayon: each pair "pending", "running" or "done"
    tpc, tb, tx, ts,           \* each pool thread: its place in render_line, the pair it
                               \* runs, the pixel x and the sample _s of its loops
    writers,                   \* for each byte of pixels, the y of every write to it
    drawn,                     \* <<generator, thread, y>> for every random draw made
    lpc, larg, lx, ls, luv,    \* main.rs render_line alone: its place, its arguments, the
                               \* loop counters x and _s, the <<u, v>> passed to get_ray
    stack, lret, calls, queried,   \* utils.rs ray_color: the frames of the nested calls,
                               \* the colour a call returned, and per sample the number
                               \* of ray_color calls and of hit_world queries
    spc, sself, sray, srange, sres,  \* sphere.rs Sphere::hit alone: its place, the sphere,
                               \* the ray, <<t_min, t_max>> and the returned option
    ppc, camera, pworld, pray, phit, bounces,  \* one light path: its place, the Camera,
                               \* the scene, the current Ray, the last HitRecord and
                               \* the number of scatterings so far
    wpc, world, wray, wrange, wres,  \* sphere.rs: the step reached, the surface list,
                               \* the ray, <<t_min, t_max>>, hit_world's result
    mpc, mat, margs, mcall, mres   \* material.rs: the step reached, the material built,
                               \* the constructor's arguments, the scatter call's
                               \* arguments and draws, its result

vectorVars == <<va, vb, vop, vres>>
materialVars == <<mpc, mat, margs, mcall, mres>>
worldVars == <<wpc, world, wray, wrange, wres>>
renderVars ==
    <<rpc, width, height, samples_per_pixel, bands, task, tpc, tb, tx, ts, writers, drawn>>
lineVars == <<lpc, larg, lx, ls, luv, stack, lret, calls, queried>>
sphereVars == <<spc, sself, sray, srange, sres>>
pathVars == <<ppc, camera, pworld, pray, phit, bounces>>
vars ==
    <<va, vb, vop, vres, mpc, mat, margs, mcall, mres, wpc, world, wray, wrange, wres,
      rpc, width, height, samples_per_pixel, bands, task, tpc, tb, tx, ts, writers, drawn,
      lpc, larg, lx, ls, luv, stack, lret, calls, queried,
      spc, sself, sray, srange, sres,
      ppc, camera, pworld, pray, phit, bounces>>

NoVal == "none"

\* the parts of the state a specification does not use
VectorIdle == va = NoVal /\ vb = NoVal /\ vop = NoVal /\ vres = NoVal

MaterialIdle ==
    mpc = "idle" /\ mat = NoVal /\ margs = NoVal /\ mcall = NoVal /\ mres = NoVal
WorldIdle ==
    wpc = "idle" /\ world = NoVal /\ wray = NoVal /\ wrange = NoVal /\ wres = NoVal
PathIdle ==
    /\ ppc = "idle" /\ camera = NoVal /\ pworld = NoVal /\ pray = NoVal /\ phit = NoVal
    /\ bounces = 0
SphereIdle == spc = "idle" /\ sself = NoVal /\ sray = NoVal /\ srange = NoVal /\ sres = NoVal
LineIdle ==
    /\ lpc = "idle" /\ larg = NoVal /\ lx = 0 /\ ls = 0 /\ luv = NoVal
    /\ stack = <<>> /\ lret = NoVal /\ calls = 0 /\ queried = 0
RenderIdle ==
    /\ rpc = "idle" /\ width = 0 /\ height = 0 /\ samples_per_pixel = 0
    /\ bands = <<>> /\ task = <<>> /\ tpc = <<>> /\ tb = <<>> /\ tx = <<>> /\ ts = <<>>
    /\ writers = <<>> /\ drawn = {}

\* -------------------------------------------------------------------------
\* f64 arithmetic
\* -------------------------------------------------------------------------
Abs(n) == IF n < 0 THEN -n ELSE n

RECURSIVE GCD(_, _)
GCD(a, b) == IF b = 0 THEN a ELSE GCD(b, a % b)

\* the rational n/d in lowest terms with a positive denominator (d # 0)
Rat(n, d) ==
    LET s == IF d < 0 THEN -1 ELSE 1
        g == GCD(Abs(n), Abs(d))
    IN  <<(s * n) \div g, (s * d) \div g>>

I(n) == <<n, 1>>

\* the non-finite values, written with a zero denominator
PosInf == <<1, 0>>
NegInf == <<-1, 0>>
NaN == <<0, 0>>

IsFinite(x) == x[2] # 0

FAdd(a, b) == Rat(a[1] * b[2] + b[1] * a[2], a[2] * b[2])
FSub(a, b) == Rat(a[1] * b[2] - b[1] * a[2], a[2] * b[2])
FMul(a, b) == Rat(a[1] * b[1], a[2] * b[2])
FNeg(a) == <<-a[1], a[2]>>
FAbs(a) == <<Abs(a[1]), a[2]>>

\* a / b for finite a and b: IEEE division by zero gives an infinity, 0/0 a NaN
FDiv(a, b) ==
    IF b[1] = 0
    THEN IF a[1] = 0 THEN NaN ELSE IF a[1] > 0 THEN PosInf ELSE NegInf
    ELSE Rat(a[1] * b[2], a[2] * b[1])

\* a < b; every comparison with a NaN is false
FLt(a, b) ==
    IF a = NaN \/ b = NaN THEN FALSE
    ELSE IF a = PosInf \/ b = NegInf THEN FALSE
    ELSE IF a = NegInf \/ b = PosInf THEN TRUE
    ELSE a[1] * b[2] < b[1] * a[2]

FGt(a, b) == FLt(b, a)

\* f64::min: the other operand when one is a NaN
FMin(a, b) == IF a = NaN THEN b ELSE IF b = NaN THEN a ELSE IF FLt(b, a) THEN b ELSE a

\* exact square roots only: the inputs are chosen so that every root taken is rational
IsSquareInt(n) == \E r \in 0..n : r * r = n
SqrtInt(n) == CHOOSE r \in 0..n : r * r = n
HasSqrt(a) == a[1] >= 0 /\ IsSquareInt(a[1]) /\ IsSquareInt(a[2])
FSqrt(a) == <<SqrtInt(a[1]), SqrtInt(a[2])>>

\* -------------------------------------------------------------------------
\* vector.rs
\* -------------------------------------------------------------------------
VectorType == {"Vector", "Color", "Point"}

New(x, y, z, data_type) == [data |-> <<x, y, z>>, data_type |-> data_type]

dot(self, other) ==
    FAdd(FAdd(FMul(self.data[1], other.data[1]), FMul(self.data[2], other.data[2])),
         FMul(self.data[3], other.data[3]))

length_squared(self) == dot(self, self)

cross_other_tag(self, other) ==
    New(FSub(FMul(self.data[2], other.data[3]), FMul(self.data[3], other.data[2])),
        FSub(FMul(self.data[3], other.data[1]), FMul(self.data[1], other.data[3])),
        FSub(FMul(self.data[1], other.data[2]), FMul(self.data[2], other.data[1])),
        other.data_type)

cross(self, other) ==
    New(FSub(FMul(self.data[2], other.data[3]), FMul(self.data[3], other.data[2])),
        FSub(FMul(self.data[3], other.data[1]), FMul(self.data[1], other.data[3])),
        FSub(FMul(self.data[1], other.data[2]), FMul(self.data[2], other.data[1])),
        self.data_type)

add_other_tag(self, other) ==
    New(FAdd(self.data[1], other.data[1]), FAdd(self.data[2], other.data[2]),
        FAdd(self.data[3], other.data[3]), other.data_type)

add(self, other) ==
    New(FAdd(self.data[1], other.data[1]), FAdd(self.data[2], other.data[2]),
        FAdd(self.data[3], other.data[3]), self.data_type)

sub(self, other) ==
    New(FSub(self.data[1], other.data[1]), FSub(self.data[2], other.data[2]),
        FSub(self.data[3], other.data[3]), self.data_type)

\* negation that leaves the components as they are
neg_unchanged(self) == self

neg(self) == New(FNeg(self.data[1]), FNeg(self.data[2]), FNeg(self.data[3]), self.data_type)

mul(self, other) ==
    New(FMul(self.data[1], other.data[1]), FMul(self.data[2], other.data[2]),
        FMul(self.data[3], other.data[3]), self.data_type)

\* impl Mul<f64> for Vector
mul_f64(self, other) ==
    New(FMul(self.data[1], other), FMul(self.data[2], other), FMul(self.data[3], other),
        self.data_type)

\* impl Mul<Vector> for f64
f64_mul(self, other) == mul_f64(other, self)

div(self, other) ==
    New(FDiv(self.data[1], other.data[1]), FDiv(self.data[2], other.data[2]),
        FDiv(self.data[3], other.data[3]), self.data_type)

\* impl Div<f64> for Vector
div_f64(self, other) ==
    New(FDiv(self.data[1], other), FDiv(self.data[2], other), FDiv(self.data[3], other),
        self.data_type)

epsilon == <<1, 10000>>

fuzzy_equal(lhs, rhs) ==
    /\ IsFinite(lhs)
    /\ IsFinite(rhs)
    /\ FLt(FAbs(FSub(lhs, rhs)), epsilon)

eq_ignoring_tag(self, other) ==
    /\ fuzzy_equal(self.data[1], other.data[1])
    /\ fuzzy_equal(self.data[2], other.data[2])
    /\ fuzzy_equal(self.data[3], other.data[3])

\* impl PartialEq for Vector
eq(self, other) ==
    /\ fuzzy_equal(self.data[1], other.data[1])
    /\ fuzzy_equal(self.data[2], other.data[2])
    /\ fuzzy_equal(self.data[3], other.data[3])
    /\ self.data_type = other.data_type

\* x.abs() < f64::EPSILON (2^-52).  A model value n/d has d < 2^31, so it is below
\* 2^-52 in absolute value exactly when n = 0.
BelowF64Epsilon(x) == IsFinite(x) /\ x[1] = 0

near_zero(self) ==
    /\ BelowF64Epsilon(self.data[1])
    /\ BelowF64Epsilon(self.data[2])
    /\ BelowF64Epsilon(self.data[3])

len(self) == FSqrt(length_squared(self))

get_unit_vector(self) == div_f64(self, len(self))

\* -------------------------------------------------------------------------
\* ray.rs, hit.rs
\* -------------------------------------------------------------------------
Ray_new(origin, direction) == [origin |-> origin, direction |-> direction]

at(self, t) == add(self.origin, f64_mul(t, self.direction))

HitRecord(point, normal, t, front_face, material) ==
    [point |-> point, normal |-> normal, t |-> t, front_face |-> front_face,
     material |-> material]

\* Option<T>: None is the empty sequence, Some(x) the sequence <<x>>
None == <<>>
Some(x) == <<x>>
IsSome(o) == Len(o) = 1
Unwrap(o) == o[1]

\* -------------------------------------------------------------------------
\* sphere.rs
\* -------------------------------------------------------------------------
Sphere_new(center, radius, material) ==
    [center |-> center, radius |-> radius, material |-> material]

Sphere_discriminant(self, r) ==
    LET oc == sub(r.origin, self.center)
        a == length_squared(r.direction)
        half_b == dot(oc, r.direction)
        c == FSub(length_squared(oc), FMul(self.radius, self.radius))
    IN  FSub(FMul(half_b, half_b), FMul(a, c))

\* the two roots, the smaller first
Sphere_roots(self, r) ==
    LET oc == sub(r.origin, self.center)
        a == length_squared(r.direction)
        half_b == dot(oc, r.direction)
        discriminant_sqrt == FSqrt(Sphere_discriminant(self, r))
    IN  <<FDiv(FSub(FNeg(half_b), discriminant_sqrt), a),
          FDiv(FAdd(FNeg(half_b), discriminant_sqrt), a)>>

\* the range test without its upper end
OutOfRange_no_upper(root, t_min, t_max) == FLt(root, t_min)

OutOfRange(root, t_min, t_max) == FLt(root, t_min) \/ FLt(t_max, root)

Sphere_hit(self, r, t_min, t_max) ==
    IF FLt(Sphere_discriminant(self, r), I(0)) THEN None
    ELSE
        LET roots == Sphere_roots(self, r)
            second == OutOfRange(roots[1], t_min, t_max)
            root == IF second THEN roots[2] ELSE roots[1]
        IN  IF second /\ OutOfRange(roots[2], t_min, t_max) THEN None
            ELSE
                LET point == at(r, root)
                    normal == div_f64(sub(point, self.center), self.radius)
                    front_face == FLt(dot(r.direction, normal), I(0))
                IN  Some(HitRecord(point, IF front_face THEN normal ELSE neg(normal),
                                   root, front_face, self.material))

\* the loop of hit_world from surface i on, without the update of closest_so_far
RECURSIVE hit_world_unshrunk_from(_, _, _, _, _, _)
hit_world_unshrunk_from(w, r, t_min, i, closest_so_far, hit_record) ==
    IF i > Len(w) THEN hit_record
    ELSE
        LET hit == Sphere_hit(w[i], r, t_min, closest_so_far)
        IN  IF IsSome(hit)
            THEN hit_world_unshrunk_from(w, r, t_min, i + 1, closest_so_far, hit)
            ELSE hit_world_unshrunk_from(w, r, t_min, i + 1, closest_so_far, hit_record)

hit_world_unshrunk(w, r, t_min, t_max) == hit_world_unshrunk_from(w, r, t_min, 1, t_max, None)

\* the loop of hit_world from surface i on
RECURSIVE hit_world_from(_, _, _, _, _, _)
hit_world_from(w, r, t_min, i, closest_so_far, hit_record) ==
    IF i > Len(w) THEN hit_record
    ELSE
        LET hit == Sphere_hit(w[i], r, t_min, closest_so_far)
        IN  IF IsSome(hit)
            THEN hit_world_from(w, r, t_min, i + 1, Unwrap(hit).t, hit)
            ELSE hit_world_from(w, r, t_min, i + 1, closest_so_far, hit_record)

hit_world(w, r, t_min, t_max) == hit_world_from(w, r, t_min, 1, t_max, None)

\* -------------------------------------------------------------------------
\* material.rs
\* -------------------------------------------------------------------------
Dielectric_new(ir) == [kind |-> "Dielectric", ir |-> ir]

Metal_new(albedo, fuzz) ==
    [kind |-> "Metal", albedo |-> albedo, fuzz |-> IF FLt(fuzz, I(1)) THEN fuzz ELSE I(1)]

Lambertian_new(albedo) == [kind |-> "Lambertian", albedo |-> albedo]

reflect(v, n) == sub(v, mul_f64(n, FMul(I(2), dot(v, n))))

refract(uv, n, etai_over_eatt) ==
    LET cos_theta == FMin(dot(neg(uv), n), I(1))
        r_out_perp == mul_f64(add(uv, mul_f64(n, cos_theta)), etai_over_eatt)
        r_out_parallel ==
            mul_f64(n, FMul(I(-1), FSqrt(FAbs(FSub(I(1), length_squared(r_out_perp))))))
    IN  add(r_out_parallel, r_out_perp)

Pow5(x) == FMul(FMul(FMul(x, x), FMul(x, x)), x)

reflectance(cosine, ref_idx) ==
    LET r == FDiv(FSub(I(1), ref_idx), FAdd(I(1), ref_idx))
        r0 == FMul(r, r)
    IN  FAdd(r0, FMul(FSub(I(1), r0), Pow5(FSub(I(1), cosine))))

\* the values Dielectric::scatter computes before it chooses a branch
Dielectric_refraction_ratio(self, hit_record) ==
    IF hit_record.front_face THEN FDiv(I(1), self.ir) ELSE self.ir

Dielectric_cos_theta(r, hit_record) ==
    FMin(dot(neg(get_unit_vector(r.direction)), hit_record.normal), I(1))

Dielectric_sin_theta(r, hit_record) ==
    FSqrt(FSub(I(1), FMul(Dielectric_cos_theta(r, hit_record), Dielectric_cos_theta(r, hit_record))))

Dielectric_reflects(self, r, hit_record, draw) ==
    LET refraction_ratio == Dielectric_refraction_ratio(self, hit_record)
        cos_theta == Dielectric_cos_theta(r, hit_record)
        sin_theta == Dielectric_sin_theta(r, hit_record)
        cannot_refract == FGt(FMul(refraction_ratio, sin_theta), I(1))
    IN  cannot_refract \/ FGt(reflectance(cos_theta, refraction_ratio), draw)

\* draw is the value of rng.gen::<f64>()
Dielectric_scatter_absorbing(self, r, hit_record, draw) ==
    LET attenuation == New(I(1), I(1), I(1), "Color")
        unit_direction == get_unit_vector(r.direction)
    IN  IF Dielectric_reflects(self, r, hit_record, draw)
        THEN Some(<<Some(Ray_new(hit_record.point, reflect(unit_direction, hit_record.normal))),
                    attenuation>>)
        ELSE None

Dielectric_scatter(self, r, hit_record, draw) ==
    LET attenuation == New(I(1), I(1), I(1), "Color")
        refraction_ratio == Dielectric_refraction_ratio(self, hit_record)
        unit_direction == get_unit_vector(r.direction)
    IN  IF Dielectric_reflects(self, r, hit_record, draw)
        THEN Some(<<Some(Ray_new(hit_record.point, reflect(unit_direction, hit_record.normal))),
                    attenuation>>)
        ELSE Some(<<Some(Ray_new(hit_record.point,
                                 refract(unit_direction, hit_record.normal, refraction_ratio))),
                    attenuation>>)

\* Metal::scatter giving the bare attenuation where it absorbs
Metal_scatter_bare_albedo(self, ray, hit_record, p) ==
    LET reflected == reflect(get_unit_vector(ray.direction), hit_record.normal)
        scattered == Ray_new(hit_record.point, add(reflected, f64_mul(self.fuzz, p)))
        attenuation == self.albedo
    IN  IF FGt(dot(scattered.direction, hit_record.normal), I(0))
        THEN Some(<<Some(scattered), attenuation>>)
        ELSE Some(<<None, attenuation>>)

\* p is the value of Vector::random_in_unit_sphere()
Metal_scatter(self, ray, hit_record, p) ==
    LET reflected == reflect(get_unit_vector(ray.direction), hit_record.normal)
        scattered == Ray_new(hit_record.point, add(reflected, f64_mul(self.fuzz, p)))
        attenuation == self.albedo
    IN  IF FGt(dot(scattered.direction, hit_record.normal), I(0))
        THEN Some(<<Some(scattered), attenuation>>)
        ELSE None

\* p is the value of Vector::random_in_unit_sphere()
Lambertian_scatter(self, ray, hit_record, p) ==
    LET sum == add(hit_record.normal, p)
        scatter_direction == IF near_zero(sum) THEN hit_record.normal ELSE sum
        scattered == Ray_new(hit_record.point, scatter_direction)
        attenuation == self.albedo
    IN  Some(<<Some(scattered), attenuation>>)

\* -------------------------------------------------------------------------
\* The random sources (rand::Rng), as the sets of values a call can return
\* -------------------------------------------------------------------------
Half == <<1, 2>>

SampleGrid == {I(-1), FNeg(Half), I(0), Half, I(1)}

\* rng.gen_range(min..max): min <= x < max
gen_range(min, max) == {x \in SampleGrid : ~ FLt(x, min) /\ FLt(x, max)}

\* rng.gen::<f64>(): 0 <= x < 1
gen_f64 == gen_range(I(0), I(1))

random(min, max) ==
    {New(x, y, z, "Vector") :
        x \in gen_range(min, max), y \in gen_range(min, max), z \in gen_range(min, max)}

\* the loop returns the first draw strictly inside the unit ball
random_in_unit_sphere == {p \in random(I(-1), I(1)) : FLt(length_squared(p), I(1))}

\* -------------------------------------------------------------------------
\* utils.rs random_in_unit_disk and degrees_to_radians, camera.rs
\* -------------------------------------------------------------------------
\* the loop returns the first draw with length_squared <= 1
random_in_unit_disk ==
    {p \in {New(x, y, I(0), "Point") : x \in gen_range(I(-1), I(1)), y \in gen_range(I(-1), I(1))} :
        ~ FGt(length_squared(p), I(1))}

\* angles are kept as rational multiples of pi: degree * PI / 180.0
degrees_to_radians(degree) == FDiv(degree, I(180))

\* f64::tan at the angles (in multiples of pi) where it is rational
tan(x) ==
    CASE x = I(0) -> I(0)
      [] x = <<1, 4>> -> I(1)

Camera_new(look_from, look_at, vup, vfov, aspect_ratio, aperture, focus_distance) ==
    LET theta == degrees_to_radians(vfov)
        h == tan(FDiv(theta, I(2)))
        viewport_height == FMul(I(2), h)
        viewport_width == FMul(aspect_ratio, viewport_height)
        w == get_unit_vector(sub(look_from, look_at))
        u == get_unit_vector(cross(vup, w))
        v == cross(w, u)
        origin == look_from
        horizontal == f64_mul(FMul(focus_distance, viewport_width), u)
        vertical == f64_mul(FMul(focus_distance, viewport_height), v)
        lower_left_corner ==
            sub(sub(sub(origin, div_f64(horizontal, I(2))), div_f64(vertical, I(2))),
                f64_mul(focus_distance, w))
        lens_radius == FDiv(aperture, I(2))
    IN  [origin |-> origin, horizontal |-> horizontal, vertical |-> vertical,
         lower_left_corner |-> lower_left_corner, w |-> w, v |-> v, u |-> u,
         lens_radius |-> lens_radius]

\* p is the value of utils::random_in_unit_disk()
get_ray(self, s, t, p) ==
    LET rd == f64_mul(self.lens_radius, p)
        offset == add(mul_f64(self.u, rd.data[1]), mul_f64(self.v, rd.data[2]))
    IN  Ray_new(add(self.origin, offset),
                sub(sub(add(add(self.lower_left_corner, f64_mul(s, self.horizontal)),
                            f64_mul(t, self.vertical)),
                        self.origin),
                    offset))

\* -------------------------------------------------------------------------
\* The material constructors and scatter functions applied to bounded arguments
\* -------------------------------------------------------------------------
Albedos == {New(Half, Half, Half, "Color"), New(I(1), I(0), Half, "Color")}

FuzzInputs == {FNeg(Half), I(0), Half, I(1), I(2)}

IrInputs == {I(1), <<3, 2>>, <<5, 3>>}

RayInputs ==
    {Ray_new(New(I(0), I(0), I(2), "Point"), New(d[1], d[2], d[3], "Vector")) :
        d \in {<<I(0), I(0), I(-1)>>, <<I(0), I(0), I(-2)>>, <<I(3), I(0), I(-4)>>,
               <<I(4), I(0), I(-3)>>, <<I(0), I(0), I(1)>>}}

\* hit records: unit normals, and one shorter normal that a draw can cancel
HitInputs(material) ==
    {HitRecord(New(I(0), I(0), I(1), "Point"), New(I(0), I(0), nz, "Vector"), I(1), ff, material) :
        nz \in {I(1), I(-1), Half}, ff \in BOOLEAN}

\* every square root the call takes is rational
UnitExact(v) == HasSqrt(length_squared(v)) /\ length_squared(v)[1] # 0

DielectricExact(self, r, hit_record, draw) ==
    /\ UnitExact(r.direction)
    /\ HasSqrt(FSub(I(1), FMul(Dielectric_cos_theta(r, hit_record),
                               Dielectric_cos_theta(r, hit_record))))
    /\ \/ Dielectric_reflects(self, r, hit_record, draw)
       \/ LET cos_theta == Dielectric_cos_theta(r, hit_record)
              perp == mul_f64(add(get_unit_vector(r.direction),
                                  mul_f64(hit_record.normal, cos_theta)),
                              Dielectric_refraction_ratio(self, hit_record))
          IN  HasSqrt(FAbs(FSub(I(1), length_squared(perp))))

MaterialInit ==
    /\ LineIdle
    /\ SphereIdle
    /\ PathIdle
    /\ VectorIdle
    /\ WorldIdle
    /\ RenderIdle
    /\ mpc = "new"
    /\ mat = NoVal
    /\ margs = NoVal
    /\ mcall = NoVal
    /\ mres = NoVal

Built(material, args) ==
    /\ mpc' = "built"
    /\ mat' = material
    /\ margs' = args
    /\ UNCHANGED <<mcall, mres>>
    /\ UNCHANGED <<vectorVars, worldVars, renderVars, lineVars, sphereVars, pathVars>>

NewLambertian ==
    /\ mpc = "new"
    /\ \E albedo \in Albedos : Built(Lambertian_new(albedo), <<albedo>>)

NewMetal ==
    /\ mpc = "new"
    /\ \E albedo \in Albedos, fuzz \in FuzzInputs :
          Built(Metal_new(albedo, fuzz), <<albedo, fuzz>>)

NewDielectric ==
    /\ mpc = "new"
    /\ \E ir \in IrInputs : Built(Dielectric_new(ir), <<ir>>)

Scattered(ray, hit_record, draw, result) ==
    /\ mpc' = "scattered"
    /\ mcall' = [ray |-> ray, hit_record |-> hit_record, draw |-> draw]
    /\ mres' = result
    /\ UNCHANGED <<mat, margs>>
    /\ UNCHANGED <<vectorVars, worldVars, renderVars, lineVars, sphereVars, pathVars>>

ScatterLambertian ==
    /\ mpc = "built"
    /\ mat.kind = "Lambertian"
    /\ \E ray \in RayInputs, hit_record \in HitInputs(mat), p \in random_in_unit_sphere :
          Scattered(ray, hit_record, p, Lambertian_scatter(mat, ray, hit_record, p))

ScatterMetal ==
    /\ mpc = "built"
    /\ mat.kind = "Metal"
    /\ \E ray \in RayInputs, hit_record \in HitInputs(mat), p \in random_in_unit_sphere :
          /\ UnitExact(ray.direction)
          /\ Scattered(ray, hit_record, p, Metal_scatter(mat, ray, hit_record, p))

ScatterDielectric ==
    /\ mpc = "built"
    /\ mat.kind = "Dielectric"
    /\ \E ray \in RayInputs, hit_record \in HitInputs(mat), draw \in gen_f64 :
          /\ DielectricExact(mat, ray, hit_record, draw)
          /\ Scattered(ray, hit_record, draw, Dielectric_scatter(mat, ray, hit_record, draw))

MaterialNext ==
    \/ NewLambertian \/ NewMetal \/ NewDielectric
    \/ ScatterLambertian \/ ScatterMetal \/ ScatterDielectric

SpecMaterial == MaterialInit /\ [][MaterialNext]_vars

\* C7 as stated: whatever fuzz is passed to Metal::new, the stored fuzz lies in [0, 1],
\* and a value above 1 is stored as 1.
C7_FuzzInUnitInterval ==
    (mpc \in {"built", "scattered"} /\ mat.kind = "Metal") =>
        /\ ~ FLt(mat.fuzz, I(0))
        /\ ~ FGt(mat.fuzz, I(1))
        /\ FGt(margs[2], I(1)) => mat.fuzz = I(1)

\* C8: Lambertian::scatter and Dielectric::scatter never return None (Absorbed): the
\* result always holds an outgoing ray whose origin is the hit point, with the albedo
\* (Lambertian) or white (Dielectric) as attenuation.
C8_AlwaysScatters ==
    (mpc = "scattered" /\ mat.kind \in {"Lambertian", "Dielectric"}) =>
        /\ IsSome(mres)
        /\ IsSome(Unwrap(mres)[1])
        /\ Unwrap(Unwrap(mres)[1]).origin = mcall.hit_record.point
        /\ Unwrap(mres)[2] =
              IF mat.kind = "Lambertian" THEN mat.albedo ELSE New(I(1), I(1), I(1), "Color")

\* a dielectric that refracts (the branch that does not reflect)
C8_Witness ==
    /\ mpc = "scattered"
    /\ mat.kind = "Dielectric"
    /\ ~ Dielectric_reflects(mat, mcall.ray, mcall.hit_record, mcall.draw)
    /\ IsSome(mres)

\* -------------------------------------------------------------------------
\* main.rs: render and the row workers
\* -------------------------------------------------------------------------
MaxWidth == 2
MaxHeight == 3
MaxSamples == 1
NumThreads == 2

\* the threads of rayon's pool
Threads == 1..NumThreads

\* slice.chunks_mut(chunk_size) over a slice of length n: consecutive sub-slices, the
\* last one shorter when chunk_size does not divide n
chunks_mut(n, chunk_size) ==
    [k \in 1..((n + chunk_size - 1) \div chunk_size) |->
        [start |-> (k - 1) * chunk_size,
         len |-> IF k * chunk_size <= n THEN chunk_size ELSE n - (k - 1) * chunk_size]]

not_rev(q) == q

rev(q) == [k \in 1..Len(q) |-> q[Len(q) + 1 - k]]

enumerate(q) == [k \in 1..Len(q) |-> <<k - 1, q[k]>>]

\* let bands = pixels.chunks_mut(width * 3).rev().enumerate().collect()
render_bands(w, h) == enumerate(rev(chunks_mut(w * h * 3, w * 3)))

\* rand::thread_rng(): the generator of the calling thread (generators are named by
\* their thread)
one_global_rng(thread) == 1

thread_rng(thread) == thread

\* the places that obtain a generator while a row is rendered
render_line_rng(thread) == thread_rng(thread)
random_in_unit_disk_rng(thread) == thread_rng(thread)
Vector_random_rng(thread) == thread_rng(thread)
Dielectric_scatter_rng(thread) == thread_rng(thread)

\* pixels[x * 3 + k] within the band
PixelIndex_overlapping(x, k) == x * 2 + k

PixelIndex(x, k) == x * 3 + k

RenderInit ==
    /\ LineIdle
    /\ SphereIdle
    /\ PathIdle
    /\ VectorIdle
    /\ MaterialIdle
    /\ WorldIdle
    /\ rpc = "for_each"
    /\ width \in 1..MaxWidth
    /\ height \in 1..MaxHeight
    /\ samples_per_pixel \in 1..MaxSamples
    /\ bands = render_bands(width, height)
    /\ task = [k \in 1..Len(bands) |-> "pending"]
    /\ tpc = [t \in Threads |-> "idle"]
    /\ tb = [t \in Threads |-> 0]
    /\ tx = [t \in Threads |-> 0]
    /\ ts = [t \in Threads |-> 0]
    /\ writers = [b \in 0..(width * height * 3 - 1) |-> <<>>]
    /\ drawn = {}

\* the y argument and the band of the pair a thread runs
RowOf(t) == bands[tb[t]][1]
BandOf(t) == bands[tb[t]][2]

\* a pool thread takes a pair and calls render_line(band, .., i, ..)
StartRow(t) ==
    /\ rpc = "for_each"
    /\ tpc[t] = "idle"
    /\ \E k \in 1..Len(bands) :
          /\ task[k] = "pending"
          /\ task' = [task EXCEPT ![k] = "running"]
          /\ tb' = [tb EXCEPT ![t] = k]
    /\ tx' = [tx EXCEPT ![t] = 0]
    /\ ts' = [ts EXCEPT ![t] = 0]
    /\ tpc' = [tpc EXCEPT ![t] = IF width = 0 THEN "idle"
                                 ELSE IF samples_per_pixel = 0 THEN "write" ELSE "sample"]
    /\ UNCHANGED <<rpc, width, height, samples_per_pixel, bands, writers, drawn>>
    /\ UNCHANGED <<vectorVars, materialVars, worldVars, lineVars, sphereVars, pathVars>>

\* one pass of the sample loop: the two jitter draws, get_ray (random_in_unit_disk)
\* and ray_color, whose materials draw through Vector::random or in
\* Dielectric::scatter when the ray hits them
Sample(t) ==
    /\ tpc[t] = "sample"
    /\ \E hit \in SUBSET {"Vector::random", "Dielectric::scatter"} :
          drawn' = drawn \cup
              {<<g, t, RowOf(t)>> :
                  g \in {render_line_rng(t), random_in_unit_disk_rng(t)}
                        \cup (IF "Vector::random" \in hit THEN {Vector_random_rng(t)} ELSE {})
                        \cup (IF "Dielectric::scatter" \in hit
                              THEN {Dielectric_scatter_rng(t)} ELSE {})}
    /\ ts' = [ts EXCEPT ![t] = ts[t] + 1]
    /\ tpc' = [tpc EXCEPT ![t] = IF ts[t] + 1 < samples_per_pixel THEN "sample" ELSE "write"]
    /\ UNCHANGED <<rpc, width, height, samples_per_pixel, bands, task, tb, tx, writers>>
    /\ UNCHANGED <<vectorVars, materialVars, worldVars, lineVars, sphereVars, pathVars>>

\* the three stores of a pixel into the band; after the last pixel render_line returns
WritePixel(t) ==
    /\ tpc[t] = "write"
    /\ writers' =
          [b \in DOMAIN writers |->
              IF \E k \in 0..2 : b = BandOf(t).start + PixelIndex(tx[t], k)
              THEN Append(writers[b], RowOf(t))
              ELSE writers[b]]
    /\ tx' = [tx EXCEPT ![t] = tx[t] + 1]
    /\ ts' = [ts EXCEPT ![t] = 0]
    /\ IF tx[t] + 1 < width
       THEN /\ tpc' = [tpc EXCEPT ![t] = IF samples_per_pixel = 0 THEN "write" ELSE "sample"]
            /\ UNCHANGED <<task, tb>>
       ELSE /\ tpc' = [tpc EXCEPT ![t] = "idle"]
            /\ task' = [task EXCEPT ![tb[t]] = "done"]
            /\ tb' = [tb EXCEPT ![t] = 0]
    /\ UNCHANGED <<rpc, width, height, samples_per_pixel, bands, drawn>>
    /\ UNCHANGED <<vectorVars, materialVars, worldVars, lineVars, sphereVars, pathVars>>

\* for_each returns once every pair has been processed; render returns pixels
Return ==
    /\ rpc = "for_each"
    /\ \A k \in 1..Len(bands) : task[k] = "done"
    /\ rpc' = "returned"
    /\ UNCHANGED <<width, height, samples_per_pixel, bands, task, tpc, tb, tx, ts, writers,
                   drawn>>
    /\ UNCHANGED <<vectorVars, materialVars, worldVars, lineVars, sphereVars, pathVars>>

Next ==
    \/ \E t \in Threads : StartRow(t)
    \/ \E t \in Threads : Sample(t)
    \/ \E t \in Threads : WritePixel(t)
    \/ Return

Spec == RenderInit /\ [][Next]_vars

\* the band render pairs with the index y, and whether that pair is being rendered
BandFor(y) == bands[CHOOSE k \in 1..Len(bands) : bands[k][1] = y][2]
RowRunning(y) == \E k \in 1..Len(bands) : bands[k][1] = y /\ task[k] = "running"

InBand(b, band) == band.start <= b /\ b < band.start + band.len

\* C3: under every interleaving each row worker writes only into its own band of
\* width * 3 bytes, the bands of distinct workers do not overlap, there is exactly one
\* pair (one render_line call) per row, and when render returns every one of the
\* width * height * 3 bytes has been written exactly once.
C3_DisjointBands ==
    /\ \A b \in DOMAIN writers : \A j \in 1..Len(writers[b]) :
          /\ InBand(b, BandFor(writers[b][j]))
          /\ BandFor(writers[b][j]).len = width * 3
    /\ \A k1, k2 \in 1..Len(bands) :
          k1 # k2 => ~ \E b \in DOMAIN writers : InBand(b, bands[k1][2]) /\ InBand(b, bands[k2][2])
    /\ Len(bands) = height
    /\ \A t1, t2 \in Threads : (t1 # t2 /\ tb[t1] # 0) => tb[t1] # tb[t2]
    /\ rpc = "returned" =>
          /\ DOMAIN writers = 0..(width * height * 3 - 1)
          /\ \A b \in DOMAIN writers : Len(writers[b]) = 1

\* render has returned an image of at least two rows that two threads worked on
C3_Witness ==
    /\ rpc = "returned"
    /\ height >= 2
    /\ width >= 2
    /\ \E d1, d2 \in drawn : d1[2] # d2[2]
    /\ \A b \in DOMAIN writers : Len(writers[b]) = 1

\* C4 as stated: no generator is drawn from by two different row workers.
C4_OneRowPerGenerator ==
    \A d1, d2 \in drawn : d1[1] = d2[1] => d1[3] = d2[3]

\* C4 amended: no generator is drawn from by two different pool threads, and two row
\* workers draw from the same generator only when they run on the same thread, one
\* after the other: never while both are running.
C4_OneThreadPerGenerator ==
    \A d1, d2 \in drawn :
        d1[1] = d2[1] =>
            /\ d1[2] = d2[2]
            /\ d1[3] # d2[3] => ~ (RowRunning(d1[3]) /\ RowRunning(d2[3]))

\* one thread has rendered two rows with its generator while another thread draws
\* from a different one
C4_Witness ==
    \E d1, d2, d3 \in drawn :
        /\ d1[1] = d2[1]
        /\ d1[3] # d2[3]
        /\ d3[1] # d1[1]
        /\ d3[2] # d1[2]

\* C5: the k-th band of the buffer (k = 0 the first, the top of the image) is
\* rendered with y = height - 1 - k: every byte is written by the render_line call
\* whose y is height - 1 - (its band number), and each y in 0..height-1 is paired with
\* exactly one band.
C5_TopRowFirst ==
    /\ \A b \in DOMAIN writers : \A j \in 1..Len(writers[b]) :
          writers[b][j] = height - 1 - (b \div (width * 3))
    /\ \A t \in Threads :
          tb[t] # 0 => BandOf(t).start = (height - 1 - RowOf(t)) * width * 3
    /\ \A y \in 0..(height - 1) : Cardinality({k \in 1..Len(bands) : bands[k][1] = y}) = 1

\* the first band has been written with the largest y and the last band with y = 0
C5_Witness ==
    /\ height >= 2
    /\ writers[0] = <<height - 1>>
    /\ writers[width * height * 3 - 1] = <<0>>

\* -------------------------------------------------------------------------
\* main.rs render_line, camera.rs get_ray and utils.rs ray_color, one call of
\* render_line step by step.  The scene and the rays are left open: hit_world may
\* return none or a hit on a surface of any material, and a material's scatter may
\* return whatever its code can return.
\* -------------------------------------------------------------------------
MaxDepth == 2

\* colours, as far as ray_color tells them apart: what the innermost call returned
\* and how many attenuations were multiplied onto it on the way out
Colour(base, factors) == [base |-> base, factors |-> factors]
NoColour == Colour("none", 0)

\* the depth ray_color passes to its recursive call
same_depth(depth) == depth

next_depth(depth) == depth - 1

MaterialKinds == {"Lambertian", "Metal", "Dielectric"}

\* the shape of an Option<(Option<Ray>, Vector)>: "scattered" is
\* Some((Some(ray), attenuation)), "no_ray" is Some((None, attenuation)), "absorbed"
\* is None
Shape(result) ==
    IF ~ IsSome(result) THEN "absorbed"
    ELSE IF IsSome(Unwrap(result)[1]) THEN "scattered"
    ELSE "no_ray"

\* the shapes each scatter function returns over the rays, hit records and draws of
\* the material section
LambertianShapes ==
    UNION {{Shape(Lambertian_scatter(m, ray, hit_record, p)) :
                ray \in RayInputs, hit_record \in HitInputs(m), p \in random_in_unit_sphere} :
            m \in {Lambertian_new(albedo) : albedo \in Albedos}}

MetalShapes ==
    UNION {{Shape(Metal_scatter(m, ray, hit_record, p)) :
                ray \in {r \in RayInputs : UnitExact(r.direction)},
                hit_record \in HitInputs(m), p \in random_in_unit_sphere} :
            m \in {Metal_new(albedo, fuzz) : albedo \in Albedos, fuzz \in FuzzInputs}}

DielectricShapes ==
    UNION {{Shape(Dielectric_scatter(m, c[1], c[2], c[3])) :
                c \in {x \in RayInputs \X HitInputs(m) \X gen_f64 :
                          DielectricExact(m, x[1], x[2], x[3])}} :
            m \in {Dielectric_new(ir) : ir \in IrInputs}}

\* match self { Material::Metal(m) => m.scatter(..), Material::Lambertian(l) => .. }
ScatterShapes(kind) ==
    CASE kind = "Metal" -> MetalShapes
      [] kind = "Lambertian" -> LambertianShapes
      [] kind = "Dielectric" -> DielectricShapes

Frame(depth, pc, material) == [depth |-> depth, pc |-> pc, material |-> material]

Top == stack[Len(stack)]
Caller == SubSeq(stack, 1, Len(stack) - 1)
SetTop(f) == [stack EXCEPT ![Len(stack)] = f]

LineInit ==
    /\ SphereIdle
    /\ PathIdle
    /\ VectorIdle
    /\ MaterialIdle
    /\ WorldIdle
    /\ RenderIdle
    /\ lpc = "sample"
    /\ \E w \in 1..MaxWidth, h \in 1..MaxHeight, n \in 1..MaxSamples, d \in 0..MaxDepth :
          \E y \in 0..(h - 1) :
              larg = [width |-> w, height |-> h, samples_per_pixel |-> n, y |-> y,
                      max_depth |-> d]
    /\ lx = 0
    /\ ls = 0
    /\ luv = <<I(0), I(0)>>
    /\ stack = <<>>
    /\ lret = NoColour
    /\ calls = 0
    /\ queried = 0

\* let u = (x + rng.gen()) / (width - 1); let v = (y + rng.gen()) / (height - 1)
Jitter ==
    /\ lpc = "sample"
    /\ \E ju \in gen_f64, jv \in gen_f64 :
          luv' = <<FDiv(FAdd(I(lx), ju), FSub(I(larg.width), I(1))),
                   FDiv(FAdd(I(larg.y), jv), FSub(I(larg.height), I(1)))>>
    /\ lpc' = "get_ray"
    /\ UNCHANGED <<larg, lx, ls, stack, lret, calls, queried>>
    /\ UNCHANGED <<vectorVars, materialVars, worldVars, renderVars, sphereVars, pathVars>>

\* let r = camera.get_ray(u, v); then the call ray_color(&r, world, max_depth)
GetRay ==
    /\ lpc = "get_ray"
    /\ lpc' = "ray_color"
    /\ stack' = <<Frame(larg.max_depth, "enter", "none")>>
    /\ lret' = NoColour
    /\ calls' = 1
    /\ queried' = 0
    /\ UNCHANGED <<larg, lx, ls, luv>>
    /\ UNCHANGED <<vectorVars, materialVars, worldVars, renderVars, sphereVars, pathVars>>

\* the innermost call returns colour c to its caller
ReturnColour(c) ==
    /\ stack' = Caller
    /\ lret' = c
    /\ lpc' = IF Len(stack) = 1 THEN "accumulate" ELSE lpc

\* if depth <= 0 { return black }
Enter ==
    /\ lpc = "ray_color"
    /\ Top.pc = "enter"
    /\ IF Top.depth <= 0
       THEN ReturnColour(Colour("black", 0))
       ELSE /\ stack' = SetTop(Frame(Top.depth, "hit_world", "none"))
            /\ UNCHANGED <<lret, lpc>>
    /\ UNCHANGED <<larg, lx, ls, luv, calls, queried>>
    /\ UNCHANGED <<vectorVars, materialVars, worldVars, renderVars, sphereVars, pathVars>>

\* match hit_world(world, r, 0.0001, f64::INFINITY): none gives the background
QueryWorld ==
    /\ lpc = "ray_color"
    /\ Top.pc = "hit_world"
    /\ queried' = queried + 1
    /\ \/ ReturnColour(Colour("background", 0))
       \/ \E kind \in MaterialKinds :
            /\ stack' = SetTop(Frame(Top.depth, "scatter", kind))
            /\ UNCHANGED <<lret, lpc>>
    /\ UNCHANGED <<larg, lx, ls, luv, calls>>
    /\ UNCHANGED <<vectorVars, materialVars, worldVars, renderVars, sphereVars, pathVars>>

\* match hit_record.material.scatter(r, &hit_record)
Scatter ==
    /\ lpc = "ray_color"
    /\ Top.pc = "scatter"
    /\ \E shape \in ScatterShapes(Top.material) :
          CASE shape = "scattered" ->
                 /\ stack' = Append(SetTop(Frame(Top.depth, "recursing", Top.material)),
                                    Frame(next_depth(Top.depth), "enter", "none"))
                 /\ calls' = calls + 1
                 /\ lret' = NoColour
                 /\ UNCHANGED lpc
            [] shape = "no_ray" ->
                 /\ ReturnColour(Colour("albedo", 0))
                 /\ UNCHANGED calls
            [] shape = "absorbed" ->
                 /\ ReturnColour(Colour("black", 0))
                 /\ UNCHANGED calls
    /\ UNCHANGED <<larg, lx, ls, luv, queried>>
    /\ UNCHANGED <<vectorVars, materialVars, worldVars, renderVars, sphereVars, pathVars>>

\* return albedo * ray_color(&sr, world, depth - 1)
Attenuate ==
    /\ lpc = "ray_color"
    /\ Top.pc = "recursing"
    /\ lret # NoColour
    /\ ReturnColour(Colour(lret.base, lret.factors + 1))
    /\ UNCHANGED <<larg, lx, ls, luv, calls, queried>>
    /\ UNCHANGED <<vectorVars, materialVars, worldVars, renderVars, sphereVars, pathVars>>

\* pixel_colors += c, and the next pass of the sample loop
Accumulate ==
    /\ lpc = "accumulate"
    /\ ls' = ls + 1
    /\ lpc' = IF ls + 1 < larg.samples_per_pixel THEN "sample" ELSE "write"
    /\ UNCHANGED <<larg, lx, luv, stack, lret, calls, queried>>
    /\ UNCHANGED <<vectorVars, materialVars, worldVars, renderVars, sphereVars, pathVars>>

\* the pixel is stored, and the next pass of the x loop
StorePixel ==
    /\ lpc = "write"
    /\ lx' = lx + 1
    /\ ls' = 0
    /\ lpc' = IF lx + 1 < larg.width THEN "sample" ELSE "done"
    /\ UNCHANGED <<larg, luv, stack, lret, calls, queried>>
    /\ UNCHANGED <<vectorVars, materialVars, worldVars, renderVars, sphereVars, pathVars>>

LineNext ==
    \/ Jitter \/ GetRay \/ Enter \/ QueryWorld \/ Scatter \/ Attenuate
    \/ Accumulate \/ StorePixel

SpecLine == LineInit /\ [][LineNext]_vars

\* C1: every recursive call of ray_color passes depth - 1, a call with depth 0 returns
\* black without querying the scene or a material, and so a chain of nested calls
\* started with depth d is never longer than d + 1 calls and makes at most d scene
\* queries, whatever hit_world and the materials return: ray_color terminates.
C1_DepthBoundsRecursion ==
    /\ Len(stack) <= larg.max_depth + 1
    /\ calls <= larg.max_depth + 1
    /\ queried <= larg.max_depth
    /\ \A i \in 1..Len(stack) :
          /\ stack[i].depth = larg.max_depth - (i - 1)
          /\ stack[i].depth >= 0
          /\ stack[i].pc \in {"hit_world", "scatter", "recursing"} => stack[i].depth > 0
    /\ (lpc = "accumulate" /\ calls = larg.max_depth + 1) => lret.base = "black"
    /\ (lpc = "accumulate" /\ larg.max_depth = 0) =>
          lret = Colour("black", 0) /\ queried = 0

\* a chain of d + 1 nested calls (d > 0) that has run out of depth and returned black
\* through every attenuation
C1_Witness ==
    /\ lpc = "accumulate"
    /\ larg.max_depth >= 2
    /\ calls = larg.max_depth + 1
    /\ queried = larg.max_depth
    /\ lret = Colour("black", larg.max_depth)

\* C13: for depth > 0 a call of ray_color ends in one of three ways: on a miss it
\* returns the background; on a hit whose material absorbs it returns black; on a hit
\* whose material scatters it calls ray_color with depth - 1 and returns the
\* attenuation times that call's colour.  No scatter function returns an attenuation
\* without a ray, so no call returns the bare attenuation.
C13_ThreeOutcomes ==
    [][ /\ MetalShapes \cup LambertianShapes \cup DielectricShapes = {"scattered", "absorbed"}
        /\ lret'.base # "albedo"
        /\ (lpc = "ray_color" /\ Top.pc = "hit_world" /\ Len(stack') < Len(stack)) =>
              lret' = Colour("background", 0)
        /\ (lpc = "ray_color" /\ Top.pc = "scatter") =>
              \/ /\ stack' = Caller
                 /\ lret' = Colour("black", 0)
              \/ /\ Len(stack') = Len(stack) + 1
                 /\ stack'[Len(stack)].pc = "recursing"
                 /\ stack'[Len(stack')] = Frame(Top.depth - 1, "enter", "none")
        /\ (lpc = "ray_color" /\ Top.pc = "recursing") =>
              /\ stack' = Caller
              /\ lret' = Colour(lret.base, lret.factors + 1)
      ]_vars

\* a sample whose ray was scattered once and then absorbed with depth to spare
C13_Witness ==
    /\ lpc = "accumulate"
    /\ calls = 2
    /\ queried = 2
    /\ larg.max_depth >= 2
    /\ lret = Colour("black", 1)

InUnit(f) == IsFinite(f) /\ ~ FLt(f, I(0)) /\ ~ FGt(f, I(1))

\* C6 as stated: every call camera.get_ray(s, t) gets s and t in [0, 1].
C6_FractionsInUnitInterval ==
    lpc = "get_ray" => InUnit(luv[1]) /\ InUnit(luv[2])

\* -------------------------------------------------------------------------
\* hit_world applied to bounded scenes
\* -------------------------------------------------------------------------
MaxSpheres == 2

Point3(x, y, z) == New(I(x), I(y), I(z), "Point")

Grey == Lambertian_new(New(Half, Half, Half, "Color"))
Glass == Dielectric_new(<<3, 2>>)

\* the surfaces a scene is built from: two that a ray along +z hits at the same t
\* (one inside the other's near side), two coincident spheres of different materials,
\* a tangent sphere, one off the ray, one around the ray's origin, one hit at an
\* oblique angle
SphereInputs ==
    { Sphere_new(Point3(0, 0, 3), I(1), Grey),
      Sphere_new(Point3(0, 0, 4), I(2), Glass),
      Sphere_new(Point3(0, 0, 3), I(1), Glass),
      Sphere_new(Point3(1, 0, 5), I(1), Grey),
      Sphere_new(Point3(2, 0, 3), I(1), Grey),
      Sphere_new(Point3(0, 0, 0), I(1), Glass),
      Sphere_new(Point3(3, 0, 8), I(5), Grey) }

RECURSIVE SeqsUpTo(_, _)
SeqsUpTo(S, n) ==
    IF n = 0 THEN {<<>>}
    ELSE LET shorter == SeqsUpTo(S, n - 1)
         IN  shorter \cup {Append(q, x) : q \in {t \in shorter : Len(t) = n - 1}, x \in S}

WorldRays ==
    {Ray_new(Point3(0, 0, 0), New(I(0), I(0), dz, "Vector")) : dz \in {I(1), I(2), I(-1)}}

\* <<t_min, t_max>>: the range ray_color passes, and a finite one
WorldRanges == {<<<<1, 10000>>, PosInf>>, <<I(0), I(3)>>}

\* every square root Sphere::hit takes is rational
SphereExact(self, r) ==
    FLt(Sphere_discriminant(self, r), I(0)) \/ HasSqrt(Sphere_discriminant(self, r))

WorldInit ==
    /\ LineIdle
    /\ SphereIdle
    /\ PathIdle
    /\ VectorIdle
    /\ MaterialIdle
    /\ RenderIdle
    /\ wpc = "call"
    /\ world \in SeqsUpTo(SphereInputs, MaxSpheres)
    /\ wray \in WorldRays
    /\ wrange \in WorldRanges
    /\ \A i \in 1..Len(world) : SphereExact(world[i], wray)
    /\ wres = None

HitWorld ==
    /\ wpc = "call"
    /\ wpc' = "done"
    /\ wres' = hit_world(world, wray, wrange[1], wrange[2])
    /\ UNCHANGED <<world, wray, wrange>>
    /\ UNCHANGED <<vectorVars, materialVars, renderVars, lineVars, sphereVars, pathVars>>

WorldNext == HitWorld

SpecWorld == WorldInit /\ [][WorldNext]_vars

\* the orderings of a surface list
Orderings(w) == {[i \in 1..Len(w) |-> w[p[i]]] : p \in Permutations(1..Len(w))}

\* each surface's own hit in the whole range
OwnHit(i) == Sphere_hit(world[i], wray, wrange[1], wrange[2])

Hitting == {i \in 1..Len(world) : IsSome(OwnHit(i))}

\* the surfaces whose hit has the smallest t
Nearest == {i \in Hitting : \A j \in Hitting : ~ FLt(Unwrap(OwnHit(j)).t, Unwrap(OwnHit(i)).t)}

\* C2 as stated: hit_world returns the same result for every ordering of the surface
\* list, also when two surfaces are hit at the same t.
C2_SameForEveryOrder ==
    wpc = "done" =>
        \A w \in Orderings(world) : hit_world(w, wray, wrange[1], wrange[2]) = wres

\* C2 amended: hit_world returns none exactly when no surface has a hit in range;
\* otherwise it returns the hit record of the last surface in list order among those
\* whose hit has the smallest t.  So t and the hit point are the same for every
\* ordering of the list, and so is the whole record when the tied surfaces (if any)
\* give the same record.
C2_NearestLastWins ==
    wpc = "done" =>
        /\ wres = None <=> Hitting = {}
        /\ Hitting # {} =>
              /\ wres = OwnHit(CHOOSE i \in Nearest : \A j \in Nearest : j <= i)
              /\ \A w \in Orderings(world) :
                    LET other == hit_world(w, wray, wrange[1], wrange[2])
                    IN  /\ IsSome(other)
                        /\ Unwrap(other).t = Unwrap(wres).t
                        /\ Unwrap(other).point = Unwrap(wres).point
                        /\ (\A i, j \in Nearest : OwnHit(i) = OwnHit(j)) => other = wres
        /\ Hitting = {} =>
              \A w \in Orderings(world) : hit_world(w, wray, wrange[1], wrange[2]) = None

\* a nearer surface scanned before a farther one, and a tie won by the later surface
C2_Witness ==
    /\ wpc = "done"
    /\ Len(world) = 2
    /\ Hitting = {1, 2}
    /\ Nearest = {1, 2}
    /\ OwnHit(1) # OwnHit(2)
    /\ wres = OwnHit(2)

\* -------------------------------------------------------------------------
\* Sphere::hit applied to one sphere, ray and range
\* -------------------------------------------------------------------------
\* rays from in front of, inside and behind the spheres, along and across the z axis
\* and at an angle
HitRays ==
    {Ray_new(Point3(0, 0, oz), New(I(d[1]), I(d[2]), I(d[3]), "Vector")) :
        oz \in {0, 3, 6},
        d \in {<<0, 0, 1>>, <<0, 0, 2>>, <<0, 0, -1>>, <<1, 0, 0>>, <<0, 3, 4>>}}

\* <<t_min, t_max>>: the ranges of hit_world, and ranges that end on a root
HitRanges == WorldRanges \cup {<<I(2), I(4)>>, <<I(3), I(4)>>, <<I(0), PosInf>>}

SphereInit ==
    /\ PathIdle
    /\ LineIdle
    /\ VectorIdle
    /\ MaterialIdle
    /\ WorldIdle
    /\ RenderIdle
    /\ spc = "call"
    /\ sself \in SphereInputs
    /\ sray \in HitRays
    /\ srange \in HitRanges
    /\ SphereExact(sself, sray)
    /\ sres = None

Hit ==
    /\ spc = "call"
    /\ spc' = "done"
    /\ sres' = Sphere_hit(sself, sray, srange[1], srange[2])
    /\ UNCHANGED <<sself, sray, srange>>
    /\ UNCHANGED <<vectorVars, materialVars, worldVars, renderVars, lineVars, pathVars>>

SphereNext == Hit

SpecSphere == SphereInit /\ [][SphereNext]_vars

\* t_min <= t <= t_max
Within(t, range) ==
    /\ FLt(range[1], t) \/ range[1] = t
    /\ FLt(t, range[2]) \/ t = range[2]

\* the point of the ray at t lies on the sphere
OnSphere(t) ==
    length_squared(sub(at(sray, t), sself.center)) = FMul(sself.radius, sself.radius)

\* C11: Sphere::hit returns no hit when the discriminant is negative or both roots lie
\* outside [t_min, t_max]; otherwise it returns one record with t_min <= t <= t_max,
\* t being the smaller root when that is in range and the larger root otherwise.
C11_NearestRootInRange ==
    spc = "done" =>
        IF FLt(Sphere_discriminant(sself, sray), I(0)) THEN sres = None
        ELSE
            LET roots == Sphere_roots(sself, sray)
            IN  /\ OnSphere(roots[1]) /\ OnSphere(roots[2])
                /\ ~ FLt(roots[2], roots[1])
                /\ IF ~ Within(roots[1], srange) /\ ~ Within(roots[2], srange)
                   THEN sres = None
                   ELSE /\ IsSome(sres)
                        /\ Within(Unwrap(sres).t, srange)
                        /\ Unwrap(sres).t =
                              IF Within(roots[1], srange) THEN roots[1] ELSE roots[2]

\* a hit at the larger root, the smaller one lying below t_min
C11_Witness ==
    /\ spc = "done"
    /\ IsSome(sres)
    /\ Unwrap(sres).t = Sphere_roots(sself, sray)[2]
    /\ FLt(Sphere_roots(sself, sray)[1], srange[1])

\* (point - center) / radius
OutwardNormal(h) == div_f64(sub(h.point, sself.center), sself.radius)

\* C12: in every returned record front_face is true exactly when
\* dot(ray.direction, outward normal) < 0, the stored normal is the outward normal
\* when front_face and its negation otherwise, and dot(ray.direction, stored normal)
\* is never positive.
C12_NormalOpposesRay ==
    (spc = "done" /\ IsSome(sres)) =>
        LET h == Unwrap(sres)
        IN  /\ h.front_face <=> FLt(dot(sray.direction, OutwardNormal(h)), I(0))
            /\ h.normal = IF h.front_face THEN OutwardNormal(h) ELSE neg(OutwardNormal(h))
            /\ ~ FGt(dot(sray.direction, h.normal), I(0))

\* a hit from inside the sphere: the stored normal is the negated outward normal
C12_Witness ==
    /\ spc = "done"
    /\ IsSome(sres)
    /\ ~ Unwrap(sres).front_face
    /\ FLt(dot(sray.direction, Unwrap(sres).normal), I(0))
    /\ Unwrap(sres).normal # OutwardNormal(Unwrap(sres))

\* -------------------------------------------------------------------------
\* One light path of a render: Camera::get_ray, then hit_world and the material's
\* scatter in turn, as ray_color applies them to the ray and to each scattered ray
\* -------------------------------------------------------------------------
MaxBounces == 2

Mirror == Metal_new(New(I(1), I(1), I(1), "Color"), Half)

\* scenes in front of the cameras: one sphere of each material, and a glass sphere
\* with a diffuse one behind it
PathWorlds ==
    {<<Sphere_new(Point3(0, 0, -3), I(1), m)>> : m \in {Grey, Mirror, Glass}}
    \cup {<<Sphere_new(Point3(0, 0, -3), I(1), Glass), Sphere_new(Point3(0, 0, -6), I(1), Grey)>>}

\* look_from and look_at tagged Point, vup tagged Vector; vfov = 90 degrees
CameraInputs ==
    {Camera_new(Point3(0, 0, z), Point3(0, 0, z - 1), New(I(0), I(1), I(0), "Vector"),
                I(90), aspect_ratio, aperture, focus_distance) :
        z \in {0, 1}, aspect_ratio \in {I(1), <<3, 2>>}, aperture \in {I(0), I(2)},
        focus_distance \in {I(1), I(2)}}

ScreenFractions == {I(0), Half, I(1)}

PathInit ==
    /\ LineIdle
    /\ SphereIdle
    /\ VectorIdle
    /\ MaterialIdle
    /\ WorldIdle
    /\ RenderIdle
    /\ ppc = "camera"
    /\ camera \in CameraInputs
    /\ pworld \in PathWorlds
    /\ pray = NoVal
    /\ phit = NoVal
    /\ bounces = 0

\* let r = camera.get_ray(u, v)
CameraRay ==
    /\ ppc = "camera"
    /\ \E s \in ScreenFractions, t \in ScreenFractions, p \in random_in_unit_disk :
          pray' = get_ray(camera, s, t, p)
    /\ ppc' = "ray"
    /\ UNCHANGED <<camera, pworld, phit, bounces>>
    /\ UNCHANGED <<vectorVars, materialVars, worldVars, renderVars, lineVars, sphereVars>>

\* match hit_world(world, r, 0.0001, f64::INFINITY)
PathHit ==
    /\ ppc = "ray"
    /\ \A i \in 1..Len(pworld) : SphereExact(pworld[i], pray)
    /\ \E hit \in {hit_world(pworld, pray, <<1, 10000>>, PosInf)} :
          IF IsSome(hit)
          THEN phit' = Unwrap(hit) /\ ppc' = "hit"
          ELSE phit' = phit /\ ppc' = "missed"
    /\ UNCHANGED <<camera, pworld, pray, bounces>>
    /\ UNCHANGED <<vectorVars, materialVars, worldVars, renderVars, lineVars, sphereVars>>

\* match scattered: a scattered ray is the ray of the next call of ray_color
PathScattered(result) ==
    /\ IF Shape(result) = "scattered"
       THEN /\ pray' = Unwrap(Unwrap(result)[1])
            /\ ppc' = "ray"
            /\ bounces' = bounces + 1
       ELSE /\ ppc' = "absorbed"
            /\ UNCHANGED <<pray, bounces>>
    /\ UNCHANGED <<camera, pworld, phit>>
    /\ UNCHANGED <<vectorVars, materialVars, worldVars, renderVars, lineVars, sphereVars>>

PathLambertian ==
    /\ ppc = "hit"
    /\ bounces < MaxBounces
    /\ phit.material.kind = "Lambertian"
    /\ \E p \in random_in_unit_sphere :
          PathScattered(Lambertian_scatter(phit.material, pray, phit, p))

PathMetal ==
    /\ ppc = "hit"
    /\ bounces < MaxBounces
    /\ phit.material.kind = "Metal"
    /\ UnitExact(pray.direction)
    /\ \E p \in random_in_unit_sphere :
          PathScattered(Metal_scatter(phit.material, pray, phit, p))

PathDielectric ==
    /\ ppc = "hit"
    /\ bounces < MaxBounces
    /\ phit.material.kind = "Dielectric"
    /\ \E draw \in gen_f64 :
          /\ DielectricExact(phit.material, pray, phit, draw)
          /\ PathScattered(Dielectric_scatter(phit.material, pray, phit, draw))

PathNext == CameraRay \/ PathHit \/ PathLambertian \/ PathMetal \/ PathDielectric

SpecPath == PathInit /\ [][PathNext]_vars

\* C14 as stated: every ray of a render, from Camera::get_ray or from a scatter
\* function, has an origin tagged Point and a direction tagged Vector, and every hit
\* record has a normal tagged Vector.
C14_PointOriginVectorDirection ==
    /\ ppc \in {"ray", "hit", "missed", "absorbed"} =>
          /\ pray.origin.data_type = "Point"
          /\ pray.direction.data_type = "Vector"
    /\ ppc = "hit" => phit.normal.data_type = "Vector"

\* -------------------------------------------------------------------------
\* The vector operators applied to bounded operands
\* -------------------------------------------------------------------------
MaxCoord == 1

\* the operand vectors: x in -MaxCoord..MaxCoord, y in 0..MaxCoord, z in {0, 1/2}
VectorInputs ==
    { New(I(x), I(y), z, tag) :
        x \in -MaxCoord..MaxCoord, y \in 0..MaxCoord, z \in {I(0), Half}, tag \in VectorType }

ScalarInputs == {I(0), I(2), FNeg(Half)}

VectorInit ==
    /\ LineIdle
    /\ SphereIdle
    /\ PathIdle
    /\ MaterialIdle
    /\ WorldIdle
    /\ RenderIdle
    /\ va \in VectorInputs
    /\ vb \in VectorInputs
    /\ vop = "input"
    /\ vres = NoVal

Applied(op, result) ==
    /\ vop' = op
    /\ vres' = result
    /\ UNCHANGED <<va, vb>>
    /\ UNCHANGED <<materialVars, worldVars, renderVars, lineVars, sphereVars, pathVars>>

VAdd == vop = "input" /\ Applied("add", add(va, vb))
VSub == vop = "input" /\ Applied("sub", sub(va, vb))
VNeg == vop = "input" /\ Applied("neg", neg(va))
VMul == vop = "input" /\ Applied("mul", mul(va, vb))
VDiv == vop = "input" /\ Applied("div", div(va, vb))
VMulF64 == vop = "input" /\ \E k \in ScalarInputs : Applied("mul_f64", mul_f64(va, k))
VF64Mul == vop = "input" /\ \E k \in ScalarInputs : Applied("f64_mul", f64_mul(k, va))
VDivF64 == vop = "input" /\ \E k \in ScalarInputs : Applied("div_f64", div_f64(va, k))
VCross == vop = "input" /\ Applied("cross", cross(va, vb))
VEq == vop = "input" /\ Applied("eq", eq(va, vb))

VectorNext ==
    \/ VAdd \/ VSub \/ VNeg \/ VMul \/ VDiv
    \/ VMulF64 \/ VF64Mul \/ VDivF64 \/ VCross \/ VEq

SpecVector == VectorInit /\ [][VectorNext]_vars

ArithmeticOps ==
    {"add", "sub", "neg", "mul", "div", "mul_f64", "f64_mul", "div_f64", "cross"}

\* C9: every arithmetic operator (add, sub, neg, elementwise mul and div, Vector*f64,
\* f64*Vector, Vector/f64, cross) returns a vector carrying the tag of its left (or
\* sole) vector operand, whatever the tag of the other operand; and two vectors with
\* the same components and different tags compare unequal.
C9_TagOfLeftOperand ==
    /\ vop \in ArithmeticOps => vres.data_type = va.data_type
    /\ (vop = "eq" /\ va.data = vb.data /\ va.data_type # vb.data_type) => vres = FALSE

C9_Witness ==
    \/ vop = "cross" /\ va.data_type = "Point" /\ vb.data_type = "Vector"
          /\ vres.data_type = "Point"
    \/ vop = "eq" /\ va.data = vb.data /\ va.data_type = "Color"
          /\ vb.data_type = "Vector" /\ vres = FALSE

SameComponents(a, b) == \A i \in 1..3 : fuzzy_equal(a.data[i], b.data[i])

\* C10 as stated: a + b == b + a for all tagged vectors a and b.
C10_AddCommutes == vop = "add" => eq(vres, add(vb, va))

\* C10 amended: a + b and b + a always have equal components, and a + b == b + a
\* under the program's equality exactly when a and b carry the same tag.
C10_AddCommutesSameTag ==
    vop = "add" =>
        /\ SameComponents(vres, add(vb, va))
        /\ eq(vres, add(vb, va)) <=> (va.data_type = vb.data_type)

C10_Witness ==
    /\ vop = "add"
    /\ va.data_type = "Point"
    /\ vb.data_type = "Vector"
    /\ va.data # vb.data
    /\ ~ eq(vres, add(vb, va))

====
